---- MODULE Spec2Model ----
(***************************************************************************)
(* A model of elastix' PeriodicBSplineTransform component                  *)
(* (elxPeriodicBSplineTransform.hxx): the grid schedule set-up, the        *)
(* per-level installation and upsampling of the control-point grid, the    *)
(* optimizer scales of the passive edge, and the grid entries of the       *)
(* transform-parameter file.                                               *)
(*                                                                         *)
(* Axes, levels, parameter offsets and file entries are numbered from 0,   *)
(* as in the source.  A vector is a function on 0..n-1.                    *)
(***************************************************************************)
EXTENDS Integers, Sequences, FiniteSets, TLC

(***************************************************************************)
(* Bounds of the model.                                                    *)
(***************************************************************************)
\* the template parameter SpaceDimension the component is instantiated for
SpaceDimension == 2
\* largest grid size per axis drawn for SetOptimizerScales
MaxGridSize == 5
\* largest PassiveEdgeWidth drawn
MaxEdgeWidth == 3
\* largest number of resolution levels drawn
MaxLevels == 3

(***************************************************************************)
(* Program constants.                                                      *)
(***************************************************************************)
\* NumericTraits<ScalesValueType>::One
One == 1
\* const ScalesValueType infScale = 10000.0
infScale == 10000

Dims == 0 .. (SpaceDimension - 1)

Max(a, b) == IF a >= b THEN a ELSE b

\* vector with n entries, all v (Array::Fill)
Fill(n, v) == [k \in 0 .. (n - 1) |-> v]

VecLen(v) == Cardinality(DOMAIN v)

(***************************************************************************)
(* itk::ImageRegion and the image helpers the component calls.             *)
(***************************************************************************)
Region(size, index) == [size |-> size, index |-> index]

RECURSIVE ProdUpTo(_, _)
\* size[0] * ... * size[d-1]
ProdUpTo(size, d) == IF d = 0 THEN 1 ELSE size[d - 1] * ProdUpTo(size, d - 1)

\* ImageRegion::GetNumberOfPixels
GetNumberOfPixels(region) == ProdUpTo(region.size, SpaceDimension)

\* the transform's GetNumberOfParameters: one coefficient per control point
\* and per dimension
GetNumberOfParameters(region) == GetNumberOfPixels(region) * SpaceDimension

RECURSIVE OffsetUpTo(_, _, _)
OffsetUpTo(region, index, d) ==
    IF d = 0 THEN 0
    ELSE OffsetUpTo(region, index, d - 1)
         + (index[d - 1] - region.index[d - 1]) * ProdUpTo(region.size, d - 1)

\* Image::ComputeOffset on an image whose buffered region is `region'
ComputeOffset(region, index) == OffsetUpTo(region, index, SpaceDimension)

\* Image::ComputeIndex: the index at raster position `offset' of `region'
ComputeIndex(region, offset) ==
    [d \in Dims |->
        region.index[d] + ((offset \div ProdUpTo(region.size, d)) % region.size[d])]

\* ImageRegion::IsInside(index)
IsInside(region, index) ==
    \A d \in Dims : /\ index[d] >= region.index[d]
                    /\ index[d] < region.index[d] + region.size[d]

\* ImageRegionExclusionConstIteratorWithIndex from GoToBegin to IsAtEnd: the
\* indices of `region' in raster order, those of `exclusion' skipped
ExclusionIteratorWalk(region, exclusion) ==
    SelectSeq([k \in 1 .. GetNumberOfPixels(region) |-> ComputeIndex(region, k - 1)],
              LAMBDA p : ~IsInside(exclusion, p))

(***************************************************************************)
(* SetOptimizerScales                                                      *)
(***************************************************************************)
\* insetgridsize[ i ]: max( 0, gridsize[ i ] - 2 * edgeWidth ).  The casts to int
\* and back keep the value for the sizes and widths of the model.
\* variant: the edge width subtracted once instead of on both sides
InsetGridSize_SingleWidth(gridsize, edgeWidth, i) == Max(0, gridsize[i] - edgeWidth)
InsetGridSize(gridsize, edgeWidth, i) == Max(0, gridsize[i] - 2 * edgeWidth)

\* insetgridindex[ i ] = gridindex[ i ] + edgeWidth
\* variant: the inset region not moved inwards
InsetGridIndex_NoShift(gridindex, edgeWidth, i) == gridindex[i]
InsetGridIndex(gridindex, edgeWidth, i) == gridindex[i] + edgeWidth

\* the axes at which the loop over i throws
TooLargeAxes(gridsize, edgeWidth) ==
    {i \in Dims : InsetGridSize(gridsize, edgeWidth, i) = 0}

Least(S) == CHOOSE x \in S : \A y \in S : x <= y

\* the while loop over the iterator with its for loop over i: every
\* newScales[ baseOffset + i * offset ], baseOffset the offset of a visited index,
\* is set to infScale; the other entries keep their value
EdgeLoop(walk, region, offset, newScales) ==
    LET scalesIndices ==
            {ComputeOffset(region, walk[k]) + i * offset :
                k \in 1 .. Len(walk), i \in Dims}
    IN [s \in DOMAIN newScales |->
           IF s \in scalesIndices THEN infScale ELSE newScales[s]]

\* SetOptimizerScales( edgeWidth ) on a transform whose grid region is `gridregion':
\* thrown says whether the call ended in itkExceptionMacro, axis is the i the error
\* message names, set says whether SetScales was called, scales is its argument.
SetOptimizerScales(gridregion, edgeWidth) ==
    LET numberOfParameters == GetNumberOfParameters(gridregion)
        offset == numberOfParameters \div SpaceDimension
        ones == Fill(numberOfParameters, One)
        bad == TooLargeAxes(gridregion.size, edgeWidth)
        insetgridregion ==
            Region([i \in Dims |-> InsetGridSize(gridregion.size, edgeWidth, i)],
                   [i \in Dims |-> InsetGridIndex(gridregion.index, edgeWidth, i)])
    IN IF edgeWidth = 0
       THEN [thrown |-> FALSE, axis |-> 0, set |-> TRUE, scales |-> ones]
       ELSE IF bad # {}
       THEN [thrown |-> TRUE, axis |-> Least(bad), set |-> FALSE, scales |-> ones]
       ELSE [thrown |-> FALSE, axis |-> 0, set |-> TRUE,
             scales |-> EdgeLoop(ExclusionIteratorWalk(gridregion, insetgridregion),
                                 gridregion, offset, ones)]

(***************************************************************************)
(* Grid geometry and parameter vectors.                                    *)
(***************************************************************************)
Identity == [j \in Dims |-> [i \in Dims |-> IF i = j THEN 1 ELSE 0]]

Geometry(region, spacing, origin, direction) ==
    [region |-> region, spacing |-> spacing, origin |-> origin, direction |-> direction]

\* the geometry a transform holds (GetGridRegion, GetGridSpacing, GetGridOrigin,
\* GetGridDirection)
GridOf(tr) == Geometry(tr.region, tr.spacing, tr.origin, tr.direction)

\* SetGridRegion, SetGridSpacing, SetGridOrigin, SetGridDirection
InstallGrid(tr, g) ==
    [tr EXCEPT !.region = g.region, !.spacing = g.spacing,
               !.origin = g.origin, !.direction = g.direction]

\* the grid BeforeRegistration sets: size 1 on every axis but the last, which
\* gets 4; index 0, spacing 1.0, origin 0.0
PlaceholderRegion ==
    Region([d \in Dims |-> IF d = SpaceDimension - 1 THEN 4 ELSE 1],
           [d \in Dims |-> 0])

(***************************************************************************)
(* The configuration (parameter file) interface.                           *)
(***************************************************************************)
\* CountNumberOfParameterEntries
CountNumberOfParameterEntries(entries) == VecLen(entries)

\* ReadParameter( param, name, entry_nr ): the entry when present, else param
\* keeps its value
ReadEntry(param, entries, entry_nr) ==
    IF entry_nr \in DOMAIN entries THEN entries[entry_nr] ELSE param

\* ReadParameter( param, name, label, entry_nr, default_entry_nr ): the entry,
\* else the entry at default_entry_nr, else param keeps its value
ReadParameter(param, entries, entry_nr, default_entry_nr) ==
    IF entry_nr \in DOMAIN entries THEN entries[entry_nr]
    ELSE ReadEntry(param, entries, default_entry_nr)

(***************************************************************************)
(* The grid schedule computer (m_GridScheduleComputer).                    *)
(***************************************************************************)
\* the B-spline order the computer and the upsampler are constructed with
SplineOrder == 3

RECURSIVE Pow(_, _)
Pow(b, e) == IF e = 0 THEN 1 ELSE b * Pow(b, e - 1)

\* SetDefaultSchedule( levels, upsamplingFactor ) followed by GetSchedule
DefaultSchedule(levels, upsamplingFactor) ==
    [res \in 0 .. (levels - 1) |->
        [dim \in Dims |-> Pow(upsamplingFactor, levels - 1 - res)]]

CeilDiv(a, b) == (a + b - 1) \div b

\* ComputeBSplineGrid: per level, spacing = final spacing x schedule entry, and
\* the smallest grid that covers the image with the spline's support
ComputeBSplineGrid(img, finalGridSpacing, schedule) ==
    [res \in DOMAIN schedule |->
        LET spacing == [d \in Dims |-> finalGridSpacing[d] * schedule[res][d]]
        IN Geometry(
             Region([d \in Dims |->
                        CeilDiv(img.size[d] * img.spacing[d], spacing[d]) + SplineOrder],
                    [d \in Dims |-> 0]),
             spacing,
             [d \in Dims |-> img.origin[d] - spacing[d]],
             img.direction)]

\* the entry of GridSpacingSchedule read into gridSchedule[ res ][ dim ]
ScheduleEntryNr_PerLevel(res, dim) == res

ScheduleEntryNr_PerAxis(res, dim) == res * SpaceDimension + dim

\* the branch of PreComputeGridInformation taken for `count' entries
\* variant: a count that is too large read as one entry per axis and level
ScheduleBranch_NoError(count, nrOfResolutions) ==
    IF count = 0 THEN "default"
    ELSE IF count = nrOfResolutions THEN "perLevel"
    ELSE IF count >= nrOfResolutions * SpaceDimension THEN "perAxis"
    ELSE "default"
ScheduleBranch(count, nrOfResolutions) ==
    IF count = 0 THEN "default"
    ELSE IF count = nrOfResolutions THEN "perLevel"
    ELSE IF count = nrOfResolutions * SpaceDimension THEN "perAxis"
    ELSE "error"

\* method 1 or 2: the final grid spacing in physical units
\* variant: the voxel values preferred whenever they are given
FinalGridSpacing_VoxelsFirst(cfg, img) ==
    LET vox == [dim \in Dims |-> ReadParameter(16, cfg.FinalGridSpacingInVoxels, dim, 0)]
    IN IF CountNumberOfParameterEntries(cfg.FinalGridSpacingInVoxels) # 0
       THEN [dim \in Dims |-> vox[dim] * img.spacing[dim]]
       ELSE [dim \in Dims |->
               ReadParameter(8, cfg.FinalGridSpacingInPhysicalUnits, dim, 0)]
FinalGridSpacing(cfg, img) ==
    LET method2 ==
            CountNumberOfParameterEntries(cfg.FinalGridSpacingInPhysicalUnits) # 0
        finalGridSpacingInVoxels ==
            [dim \in Dims |-> ReadParameter(16, cfg.FinalGridSpacingInVoxels, dim, 0)]
    IN IF method2
       THEN [dim \in Dims |->
               ReadParameter(8, cfg.FinalGridSpacingInPhysicalUnits, dim, 0)]
       ELSE [dim \in Dims |-> finalGridSpacingInVoxels[dim] * img.spacing[dim]]

\* SetDefaultSchedule( nrOfResolutions, 2.0 ) and GetSchedule( gridSchedule )
\* variant: another upsampling factor
DefaultGridSchedule_Factor3(nrOfResolutions) == DefaultSchedule(nrOfResolutions, 3)
DefaultGridSchedule(nrOfResolutions) == DefaultSchedule(nrOfResolutions, 2)

\* PreComputeGridInformation: the schedule computer after the call, and whether
\* the call ended in itkExceptionMacro
PreComputeGridInformation(comp, cfg, img, nrOfResolutions) ==
    LET withImage == [comp EXCEPT !.imageSet = TRUE,
                                  !.initialTransformSet = cfg.UseComposition]
        finalGridSpacingInPhysicalUnits == FinalGridSpacing(cfg, img)
        default == DefaultGridSchedule(nrOfResolutions)
        withDefault == [withImage EXCEPT !.schedule = default]
        count == CountNumberOfParameterEntries(cfg.GridSpacingSchedule)
        branch == ScheduleBranch(count, nrOfResolutions)
        gridSchedule ==
            [res \in 0 .. (nrOfResolutions - 1) |->
                [dim \in Dims |->
                    IF branch = "perLevel"
                    THEN ReadEntry(default[res][dim], cfg.GridSpacingSchedule,
                                   ScheduleEntryNr_PerLevel(res, dim))
                    ELSE IF branch = "perAxis"
                    THEN ReadEntry(default[res][dim], cfg.GridSpacingSchedule,
                                   ScheduleEntryNr_PerAxis(res, dim))
                    ELSE default[res][dim]]]
    IN IF branch = "error"
       THEN [thrown |-> TRUE, comp |-> withDefault]
       ELSE [thrown |-> FALSE,
             comp |-> [withDefault EXCEPT
                         !.finalGridSpacing = finalGridSpacingInPhysicalUnits,
                         !.finalGridSpacingSet = TRUE,
                         !.schedule = gridSchedule,
                         !.setScheduleCalls = @ + 1,
                         !.grids = ComputeBSplineGrid(img,
                                      finalGridSpacingInPhysicalUnits, gridSchedule),
                         !.computeCalls = @ + 1]]

(***************************************************************************)
(* The grid upsampler (m_GridUpsampler).                                   *)
(***************************************************************************)
\* UpsampleParameters( in, out ): a vector sized for the required grid, computed
\* from the input (sized for the current grid); the identity when both grids
\* have the same size
UpsampleParameters(currentGrid, requiredGrid, in) ==
    [k \in 0 .. (GetNumberOfParameters(requiredGrid.region) - 1) |->
        in[k % VecLen(in)]]

(***************************************************************************)
(* State.                                                                  *)
(***************************************************************************)
VARIABLES
    transform,      \* m_PeriodicBSplineTransform: grid region, spacing, origin,
                    \* direction and parameters
    registration,   \* the registration: number of levels, current level, initial,
                    \* next-level and last transform parameters
    computer,       \* m_GridScheduleComputer
    upsampler,      \* m_GridUpsampler
    optimizer,      \* the optimizer's scales
    config,         \* m_Configuration: the entries of each parameter
    fixedImage,     \* the fixed image's geometry
    file,           \* the entries of the transform-parameter file
    reader,         \* the transform of the run that reads the file
    installed,      \* the levels whose geometry has been installed
    call,           \* the last call of a handler and how it ended
    pc              \* where the run is

vars == <<transform, registration, computer, upsampler, optimizer, config,
          fixedImage, file, reader, installed, call, pc>>

NoVector == Fill(0, 0)

Zeros == [d \in Dims |-> 0]

NullGeometry == Geometry(Region(Zeros, Zeros), Zeros, Zeros, Identity)

NoCall == [op |-> "none", level |-> 0, edgeWidth |-> 0, thrown |-> FALSE, axis |-> 0]

\* the objects as the constructor leaves them
NewTransform ==
    [region |-> Region(Zeros, Zeros), spacing |-> [d \in Dims |-> 1],
     origin |-> Zeros, direction |-> Identity, parameters |-> NoVector]

NewRegistration(levels) ==
    [numberOfLevels |-> levels, currentLevel |-> 0,
     initialTransformParameters |-> NoVector,
     initialTransformParametersOfNextLevel |-> NoVector,
     lastTransformParameters |-> Fill(1, 0)]

NewComputer ==
    [imageSet |-> FALSE, initialTransformSet |-> FALSE,
     schedule |-> <<>>, finalGridSpacing |-> Zeros, finalGridSpacingSet |-> FALSE,
     setScheduleCalls |-> 0, grids |-> <<>>, computeCalls |-> 0]

NewUpsampler ==
    [currentGrid |-> NullGeometry, requiredGrid |-> NullGeometry,
     calls |-> 0, input |-> NoVector, output |-> NoVector]

NewOptimizer == [scales |-> NoVector, setScalesCalls |-> 0]

NoFile ==
    [written |-> FALSE, TransformParameters |-> NoVector, GridSize |-> NoVector, GridIndex |-> NoVector,
     GridSpacing |-> NoVector, GridOrigin |-> NoVector, GridDirection |-> NoVector]

(***************************************************************************)
(* The handlers, as functions of the objects they touch.                   *)
(***************************************************************************)
\* the objects a handler reads and writes
Objects ==
    [transform |-> transform, registration |-> registration, computer |-> computer,
     upsampler |-> upsampler, optimizer |-> optimizer]

\* GetBSplineGrid( level, ... )
GetBSplineGrid(comp, level) == comp.grids[level]

\* BeforeRegistration: the placeholder grid, the dummy initial parameters, and
\* PreComputeGridInformation
BeforeRegistration(st, cfg, img) ==
    LET tr == [st.transform EXCEPT !.region = PlaceholderRegion,
                                   !.spacing = [d \in Dims |-> 1],
                                   !.origin = Zeros]
        dummyInitialParameters == Fill(GetNumberOfParameters(tr.region), 0)
        pre == PreComputeGridInformation(st.computer, cfg, img,
                                         st.registration.numberOfLevels)
    IN [st |-> [st EXCEPT !.transform = tr,
                          !.registration.initialTransformParameters =
                              dummyInitialParameters,
                          !.computer = pre.comp],
        thrown |-> pre.thrown]

\* InitializeTransform: install the grid of level 0 and give the registration
\* zero parameters for it
\* variant: the zero vector sized before the grid is installed
InitializeTransform_ParametersFirst(st) ==
    LET initialParameters == Fill(GetNumberOfParameters(st.transform.region), 0)
    IN [st EXCEPT !.transform = InstallGrid(@, GetBSplineGrid(st.computer, 0)),
                  !.registration.initialTransformParametersOfNextLevel =
                      initialParameters]
InitializeTransform(st) ==
    LET tr == InstallGrid(st.transform, GetBSplineGrid(st.computer, 0))
        initialParameters == Fill(GetNumberOfParameters(tr.region), 0)
    IN [st EXCEPT !.transform = tr,
                  !.registration.initialTransformParametersOfNextLevel =
                      initialParameters]

\* IncreaseScale: upsample the last parameters from the grid the transform holds
\* to the grid of the current level, and install both
\* variant: the transform given the last parameters instead of the upsampled ones
IncreaseScale_KeepParameters(st) ==
    LET level == st.registration.currentLevel
        current == GridOf(st.transform)
        required == GetBSplineGrid(st.computer, level)
        latestParameters == st.registration.lastTransformParameters
        upsampledParameters == UpsampleParameters(current, required, latestParameters)
    IN [st EXCEPT
          !.upsampler = [currentGrid |-> current, requiredGrid |-> required,
                         calls |-> @.calls + 1, input |-> latestParameters,
                         output |-> upsampledParameters],
          !.transform = [InstallGrid(@, required) EXCEPT
                            !.parameters = latestParameters],
          !.registration.initialTransformParametersOfNextLevel = upsampledParameters]
IncreaseScale(st) ==
    LET level == st.registration.currentLevel
        current == GridOf(st.transform)
        required == GetBSplineGrid(st.computer, level)
        latestParameters == st.registration.lastTransformParameters
        upsampledParameters == UpsampleParameters(current, required, latestParameters)
        reg == [st.registration EXCEPT
                   !.initialTransformParametersOfNextLevel = upsampledParameters]
    IN [st EXCEPT
          !.upsampler = [currentGrid |-> current, requiredGrid |-> required,
                         calls |-> @.calls + 1, input |-> latestParameters,
                         output |-> upsampledParameters],
          !.transform = [InstallGrid(@, required) EXCEPT
                            !.parameters = reg.initialTransformParametersOfNextLevel],
          !.registration = reg]

\* SetScales on the optimizer, when SetOptimizerScales got that far
SetScales(opt, r) ==
    IF r.set THEN [scales |-> r.scales, setScalesCalls |-> opt.setScalesCalls + 1]
    ELSE opt

\* BeforeEachResolution: define the grid of the current level, then set the
\* optimizer scales for the level's PassiveEdgeWidth
\* variant: the default schedule set again at every level
BeforeEachResolution_Recompute(st, cfg) ==
    LET level == st.registration.currentLevel
        defined == IF level = 0 THEN InitializeTransform(st) ELSE IncreaseScale(st)
        passiveEdgeWidth == ReadParameter(0, cfg.PassiveEdgeWidth, level, 0)
        r == SetOptimizerScales(defined.transform.region, passiveEdgeWidth)
    IN [st |-> [defined EXCEPT
                  !.optimizer = SetScales(@, r),
                  !.computer = [@ EXCEPT
                      !.schedule = DefaultGridSchedule(st.registration.numberOfLevels),
                      !.setScheduleCalls = @ + 1]],
        edgeWidth |-> passiveEdgeWidth, thrown |-> r.thrown, axis |-> r.axis]
\* variant: the optimizer scales set from the grid held on entry, before the
\* grid of the level is defined
BeforeEachResolution_ScalesFirst(st, cfg) ==
    LET level == st.registration.currentLevel
        passiveEdgeWidth == ReadParameter(0, cfg.PassiveEdgeWidth, level, 0)
        r == SetOptimizerScales(st.transform.region, passiveEdgeWidth)
        defined == IF level = 0 THEN InitializeTransform(st) ELSE IncreaseScale(st)
    IN [st |-> [defined EXCEPT !.optimizer = SetScales(@, r)],
        edgeWidth |-> passiveEdgeWidth, thrown |-> r.thrown, axis |-> r.axis]
BeforeEachResolution(st, cfg) ==
    LET level == st.registration.currentLevel
        defined == IF level = 0 THEN InitializeTransform(st) ELSE IncreaseScale(st)
        passiveEdgeWidth == ReadParameter(0, cfg.PassiveEdgeWidth, level, 0)
        r == SetOptimizerScales(defined.transform.region, passiveEdgeWidth)
    IN [st |-> [defined EXCEPT !.optimizer = SetScales(@, r)],
        edgeWidth |-> passiveEdgeWidth, thrown |-> r.thrown, axis |-> r.axis]

(***************************************************************************)
(* Actions.                                                                *)
(***************************************************************************)
Store(st) ==
    /\ transform' = st.transform
    /\ registration' = st.registration
    /\ computer' = st.computer
    /\ upsampler' = st.upsampler
    /\ optimizer' = st.optimizer

DoBeforeRegistration ==
    /\ pc = "constructed"
    /\ LET r == BeforeRegistration(Objects, config, fixedImage)
       IN /\ Store(r.st)
          /\ call' = [NoCall EXCEPT !.op = "BeforeRegistration", !.thrown = r.thrown]
          /\ pc' = IF r.thrown THEN "error" ELSE "beforeLevel"
    /\ UNCHANGED <<config, fixedImage, file, reader, installed>>

DoBeforeEachResolution ==
    /\ pc = "beforeLevel"
    /\ LET r == BeforeEachResolution(Objects, config)
       IN /\ Store(r.st)
          /\ call' = [op |-> "BeforeEachResolution",
                      level |-> registration.currentLevel,
                      edgeWidth |-> r.edgeWidth, thrown |-> r.thrown, axis |-> r.axis]
          /\ pc' = IF r.thrown THEN "error" ELSE "optimizing"
    /\ installed' = installed \cup {registration.currentLevel}
    /\ UNCHANGED <<config, fixedImage, file, reader>>

\* what the optimizer may end a level with: a vector of the length it started from
OptimizerResults(n) == {Fill(n, 0), [k \in 0 .. (n - 1) |-> (k % 3) + 1]}

\* the registration: optimize the current level from the initial parameters of the
\* level, keep the result as the last transform parameters, go to the next level
Optimize ==
    /\ pc = "optimizing"
    /\ \E result \in OptimizerResults(
                        VecLen(registration.initialTransformParametersOfNextLevel)) :
         registration' =
             [registration EXCEPT
                !.lastTransformParameters = result,
                !.currentLevel =
                    IF @ + 1 < registration.numberOfLevels THEN @ + 1 ELSE @]
    /\ pc' = IF registration.currentLevel + 1 < registration.numberOfLevels
             THEN "beforeLevel" ELSE "finished"
    /\ UNCHANGED <<transform, computer, upsampler, optimizer, config, fixedImage,
                   file, reader, installed, call>>

(***************************************************************************)
(* The registration run: BeforeRegistration, then for every level in order *)
(* BeforeEachResolution and the optimization of the level.                 *)
(***************************************************************************)
Image(size, spacing) ==
    [size |-> size, spacing |-> spacing, origin |-> Zeros, direction |-> Identity]

Configuration(voxels, physical, schedule, edge, composition) ==
    [FinalGridSpacingInVoxels |-> voxels,
     FinalGridSpacingInPhysicalUnits |-> physical,
     GridSpacingSchedule |-> schedule,
     PassiveEdgeWidth |-> edge,
     UseComposition |-> composition]

\* a vector of n entries counting up from a
Ramp(n, a) == [k \in 0 .. (n - 1) |-> a + k]

\* PassiveEdgeWidth: absent, one entry for all levels, or one entry per level
EdgeWidthSamples(levels) ==
    {NoVector} \cup {Fill(1, w) : w \in 1 .. MaxEdgeWidth}
               \cup {[k \in 0 .. (levels - 1) |-> (k * 2) % (MaxEdgeWidth + 1)]}

RunConfigurations(levels) ==
    {Configuration(v, NoVector, s, e, FALSE) :
        v \in {NoVector, Fill(1, 4)},
        s \in {NoVector, [k \in 0 .. (levels - 1) |-> levels - k]},
        e \in EdgeWidthSamples(levels)}

RunImages == {Image([d \in Dims |-> n], [d \in Dims |-> 1]) : n \in {8, 12}}

InitObjects(levels) ==
    /\ registration = NewRegistration(levels)
    /\ computer = NewComputer
    /\ upsampler = NewUpsampler
    /\ optimizer = NewOptimizer
    /\ file = NoFile
    /\ installed = {}
    /\ call = NoCall

Init ==
    /\ \E levels \in 1 .. MaxLevels :
         /\ InitObjects(levels)
         /\ config \in RunConfigurations(levels)
    /\ transform = NewTransform
    /\ reader = NewTransform
    /\ fixedImage \in RunImages
    /\ pc = "constructed"

Next ==
    \/ DoBeforeRegistration
    \/ DoBeforeEachResolution
    \/ Optimize

Spec == Init /\ [][Next]_vars

(***************************************************************************)
(* SetOptimizerScales on its own: a transform holding any grid region of   *)
(* the bounds, called once with any edge width of the bounds.              *)
(***************************************************************************)
GridRegionSamples ==
    {Region(size, index) :
        size \in [Dims -> 1 .. MaxGridSize],
        index \in {Zeros, [d \in Dims |-> 2 * d - 1]}}

InitScales ==
    /\ InitObjects(1)
    /\ \E region \in GridRegionSamples :
         transform = [NewTransform EXCEPT !.region = region]
    /\ reader = NewTransform
    /\ config = Configuration(NoVector, NoVector, NoVector, NoVector, FALSE)
    /\ fixedImage \in RunImages
    /\ pc = "installed"

DoSetOptimizerScales ==
    /\ pc = "installed"
    /\ \E edgeWidth \in 0 .. MaxEdgeWidth :
         LET r == SetOptimizerScales(transform.region, edgeWidth)
         IN /\ optimizer' = SetScales(optimizer, r)
            /\ call' = [op |-> "SetOptimizerScales", level |-> 0,
                        edgeWidth |-> edgeWidth, thrown |-> r.thrown, axis |-> r.axis]
            /\ pc' = IF r.thrown THEN "error" ELSE "scaled"
    /\ UNCHANGED <<transform, registration, computer, upsampler, config, fixedImage,
                   file, reader, installed>>

SpecScales == InitScales /\ [][DoSetOptimizerScales]_vars

\* the control points of a region, and those of its edge band of width w
ControlPoints(region) ==
    {p \in [Dims -> (-1) .. (2 * SpaceDimension + MaxGridSize)] : IsInside(region, p)}

InEdgeBand(region, w, p) ==
    \E d \in Dims : \/ p[d] < region.index[d] + w
                    \/ p[d] >= region.index[d] + region.size[d] - w

FitsEdgeWidth(region, w) == \A d \in Dims : region.size[d] - 2 * w > 0

RECURSIVE InsetPixelsUpTo(_, _, _)
\* (size[0] - 2w) * ... * (size[d-1] - 2w)
InsetPixelsUpTo(size, w, d) ==
    IF d = 0 THEN 1 ELSE (size[d - 1] - 2 * w) * InsetPixelsUpTo(size, w, d - 1)

ScalesCalled == call.op = "SetOptimizerScales"

\* C1: for every edge width w >= 0 that fits the grid, the scales given to the
\* optimizer have one entry per parameter; the entry of control point p in
\* dimension block i is the sentinel exactly when p lies in the edge band of
\* width w, and 1.0 otherwise; the sentinel entries number
\* (prod size - prod (size - 2w)) x D, which is 0 for w = 0.
C1_ScalesMarkExactlyTheEdge ==
    (ScalesCalled /\ FitsEdgeWidth(transform.region, call.edgeWidth)) =>
        LET region == transform.region
            w == call.edgeWidth
            n == GetNumberOfPixels(region) * SpaceDimension
            scales == optimizer.scales
        IN /\ ~call.thrown
           /\ optimizer.setScalesCalls = 1
           /\ DOMAIN scales = 0 .. (n - 1)
           /\ \A p \in ControlPoints(region) : \A i \in Dims :
                scales[ComputeOffset(region, p) + i * (n \div SpaceDimension)] =
                    IF InEdgeBand(region, w, p) THEN infScale ELSE One
           /\ Cardinality({k \in DOMAIN scales : scales[k] = infScale}) =
                (GetNumberOfPixels(region)
                    - InsetPixelsUpTo(region.size, w, SpaceDimension)) * SpaceDimension
           /\ (w = 0 => scales = Fill(n, One))

\* a call with a positive width that fits, on a grid with both edge and interior
C1_Witness ==
    /\ ScalesCalled /\ call.edgeWidth = 2 /\ ~call.thrown
    /\ FitsEdgeWidth(transform.region, 2)
    /\ transform.region.index # Zeros
    /\ \E k \in DOMAIN optimizer.scales : optimizer.scales[k] = One
    /\ \E k \in DOMAIN optimizer.scales : optimizer.scales[k] = infScale

C2_WitnessNegative ==
    /\ ScalesCalled /\ call.thrown
    /\ transform.region.size[call.axis] - 2 * call.edgeWidth < 0

(***************************************************************************)
(* BeforeRegistration under every configuration of the bounds.             *)
(***************************************************************************)
\* GridSpacingSchedule with 0 to levels x D + 1 entries, all different
ScheduleSamples(levels) ==
    {Ramp(count, 1) : count \in 0 .. (levels * SpaceDimension + 1)}

AllConfigurations(levels) ==
    {Configuration(v, ph, s, NoVector, c) :
        v \in {NoVector, Fill(1, 4), Ramp(SpaceDimension, 5)},
        ph \in {NoVector, Fill(1, 3), Ramp(SpaceDimension, 41)},
        s \in ScheduleSamples(levels),
        c \in BOOLEAN}

AllImages ==
    {Image([d \in Dims |-> 8], spacing) :
        spacing \in {Fill(SpaceDimension, 1), Fill(SpaceDimension, 2),
                     Ramp(SpaceDimension, 1)}}

InitConfig ==
    /\ \E levels \in 1 .. MaxLevels :
         /\ InitObjects(levels)
         /\ config \in AllConfigurations(levels)
    /\ transform = NewTransform
    /\ reader = NewTransform
    /\ fixedImage \in AllImages
    /\ pc = "constructed"

SpecConfig == InitConfig /\ [][DoBeforeRegistration]_vars

Registered == call.op = "BeforeRegistration"

ScheduleCount == VecLen(config.GridSpacingSchedule)

Levels == registration.numberOfLevels

\* C3: an explicit GridSpacingSchedule is accepted only with exactly N entries
\* (entry r for every axis of level r) or exactly N x D entries (entry r*D+d for
\* axis d of level r); 0 entries keep the default schedule; every other count is
\* a fatal error, raised before SetFinalGridSpacing, SetSchedule and
\* ComputeBSplineGrid are called on the schedule computer.
C3_ScheduleCountIsValidated ==
    Registered =>
        /\ call.thrown <=>
             ScheduleCount \notin {0, Levels, Levels * SpaceDimension}
        /\ (~call.thrown /\ ScheduleCount = Levels) =>
             \A r \in 0 .. (Levels - 1) : \A d \in Dims :
                computer.schedule[r][d] = config.GridSpacingSchedule[r]
        /\ (~call.thrown /\ ScheduleCount = Levels * SpaceDimension) =>
             \A r \in 0 .. (Levels - 1) : \A d \in Dims :
                computer.schedule[r][d] =
                    config.GridSpacingSchedule[r * SpaceDimension + d]
        /\ ScheduleCount = 0 =>
             computer.schedule = DefaultSchedule(Levels, 2)
        /\ call.thrown =>
             /\ ~computer.finalGridSpacingSet
             /\ computer.setScheduleCalls = 0
             /\ computer.computeCalls = 0
             /\ computer.grids = <<>>
             /\ pc = "error"
        /\ ~call.thrown =>
             /\ computer.finalGridSpacingSet
             /\ computer.setScheduleCalls = 1
             /\ computer.computeCalls = 1

\* a schedule with one entry per axis and level was accepted, for several levels
C3_Witness ==
    /\ Registered /\ ~call.thrown
    /\ Levels > 1
    /\ ScheduleCount = Levels * SpaceDimension
    /\ computer.schedule[1][0] # computer.schedule[1][SpaceDimension - 1]

\* a schedule with one entry too many was refused
C3_WitnessError ==
    /\ Registered /\ call.thrown
    /\ ScheduleCount = Levels * SpaceDimension + 1

Range(v) == {v[k] : k \in DOMAIN v}

\* C4: with no FinalGridSpacingInPhysicalUnits entry the final spacing given to
\* the schedule computer is, per axis d, FinalGridSpacingInVoxels[d] (16 when
\* the parameter is absent) times the fixed image's spacing[d]; with at least
\* one FinalGridSpacingInPhysicalUnits entry it is the physical-unit value and
\* the voxel values are not used.
C4_FinalGridSpacingResolved ==
    (Registered /\ ~call.thrown) =>
        LET vox == config.FinalGridSpacingInVoxels
            phys == config.FinalGridSpacingInPhysicalUnits
            final == computer.finalGridSpacing
        IN /\ VecLen(phys) = 0 =>
                \A d \in Dims :
                   /\ VecLen(vox) = 0 => final[d] = 16 * fixedImage.spacing[d]
                   /\ d \in DOMAIN vox => final[d] = vox[d] * fixedImage.spacing[d]
           /\ VecLen(phys) # 0 =>
                \A d \in Dims :
                   /\ d \in DOMAIN phys => final[d] = phys[d]
                   /\ final[d] \in Range(phys) \cup {8}

\* voxel and physical values both given, the image spacing not 1: physical wins
C4_Witness ==
    /\ Registered /\ ~call.thrown
    /\ VecLen(config.FinalGridSpacingInVoxels) = SpaceDimension
    /\ VecLen(config.FinalGridSpacingInPhysicalUnits) = SpaceDimension
    /\ fixedImage.spacing = Fill(SpaceDimension, 2)
    /\ computer.finalGridSpacing = config.FinalGridSpacingInPhysicalUnits

\* no value given and image spacing 2 on every axis: 16 x 2 = 32 on every axis
C4_WitnessVoxels ==
    /\ Registered /\ ~call.thrown
    /\ VecLen(config.FinalGridSpacingInVoxels) = 0
    /\ VecLen(config.FinalGridSpacingInPhysicalUnits) = 0
    /\ computer.finalGridSpacing = Fill(SpaceDimension, 32)

GridPrecision == 10

Real(neg, digits, exp) == [neg |-> neg, digits |-> digits, exp |-> exp]

RECURSIVE StripZeros(_)
\* the digits without trailing zeros
StripZeros(ds) ==
    IF ds = <<>> THEN <<>>
    ELSE IF ds[Len(ds)] = 0 THEN StripZeros(SubSeq(ds, 1, Len(ds) - 1))
    ELSE ds

RECURSIVE Increment(_)
\* the digits plus one unit in the last place, and whether a carry leaves them
Increment(ds) ==
    IF ds = <<>> THEN [carry |-> TRUE, digits |-> <<>>]
    ELSE IF ds[Len(ds)] < 9
    THEN [carry |-> FALSE, digits |-> [ds EXCEPT ![Len(ds)] = @ + 1]]
    ELSE LET r == Increment(SubSeq(ds, 1, Len(ds) - 1))
         IN [carry |-> r.carry, digits |-> Append(r.digits, 0)]

\* operator<< of a double on a stream of the given precision: the value rounded
\* to that many significant digits
WriteReal(v, precision) ==
    IF Len(v.digits) <= precision THEN v
    ELSE LET head == SubSeq(v.digits, 1, precision)
             r == IF v.digits[precision + 1] >= 5 THEN Increment(head)
                  ELSE [carry |-> FALSE, digits |-> head]
         IN IF r.carry THEN Real(v.neg, <<1>>, v.exp + 1)
            ELSE Real(v.neg, StripZeros(r.digits), v.exp)

\* the value a written entry is read as
ReadReal(entry) == entry

\* the flat position of direction( j, i ) in GridDirection
\* variant: the matrix read row by row
DirectionEntryNr_RowMajor(j, i) == j * SpaceDimension + i
DirectionEntryNr(j, i) == i * SpaceDimension + j

\* WriteToFile( param ): the generic entries, then GridSize, GridIndex,
\* GridSpacing, GridOrigin and GridDirection of the transform
WriteToFile(tr, param) ==
    [written |-> TRUE,
     TransformParameters |-> param,
     GridSize |-> [i \in Dims |-> tr.region.size[i]],
     GridIndex |-> [i \in Dims |-> tr.region.index[i]],
     GridSpacing |-> [i \in Dims |-> WriteReal(tr.spacing[i], GridPrecision)],
     GridOrigin |-> [i \in Dims |-> WriteReal(tr.origin[i], GridPrecision)],
     GridDirection |->
        [k \in 0 .. (SpaceDimension * SpaceDimension - 1) |->
            LET i == k \div SpaceDimension
                j == k % SpaceDimension
            IN WriteReal(tr.direction[j][i], GridPrecision)]]

\* Superclass2::ReadFromFile: SetParameters with the vector read, which checks
\* its size against the grid the transform holds
ReadGenericParameters(tr, f) ==
    IF VecLen(f.TransformParameters) = GetNumberOfParameters(tr.region)
    THEN [thrown |-> FALSE, tr |-> [tr EXCEPT !.parameters = f.TransformParameters]]
    ELSE [thrown |-> TRUE, tr |-> tr]

\* the declarations filled with default values, then the loops reading GridSize,
\* GridIndex, GridSpacing, GridOrigin and GridDirection over them
ReadGrid(f) ==
    LET gridsize == [i \in Dims |-> ReadEntry(1, f.GridSize, i)]
        gridindex == [i \in Dims |-> ReadEntry(0, f.GridIndex, i)]
        gridspacing ==
            [i \in Dims |-> ReadReal(ReadEntry(Real(FALSE, <<1>>, 1), f.GridSpacing, i))]
        gridorigin ==
            [i \in Dims |-> ReadReal(ReadEntry(Real(FALSE, <<>>, 0), f.GridOrigin, i))]
        griddirection ==
            [j \in Dims |-> [i \in Dims |->
                ReadReal(ReadEntry(IF i = j THEN Real(FALSE, <<1>>, 1)
                                   ELSE Real(FALSE, <<>>, 0),
                                   f.GridDirection, DirectionEntryNr(j, i)))]]
    IN Geometry(Region(gridsize, gridindex), gridspacing, gridorigin, griddirection)

\* ReadFromFile: read the grid entries over the defaults, install the grid, then
\* read the generic entries
\* variant: the generic entries read first, the grid installed afterwards
ReadFromFile_ParametersFirst(tr, f) ==
    LET r == ReadGenericParameters(tr, f)
    IN [thrown |-> r.thrown,
        tr |-> IF r.thrown THEN r.tr ELSE InstallGrid(r.tr, ReadGrid(f))]
ReadFromFile(tr, f) ==
    ReadGenericParameters(InstallGrid(tr, ReadGrid(f)), f)

DoWriteToFile ==
    /\ pc = "installed"
    /\ \E param \in OptimizerResults(GetNumberOfParameters(transform.region)) :
         file' = WriteToFile(transform, param)
    /\ call' = [NoCall EXCEPT !.op = "WriteToFile"]
    /\ pc' = "written"
    /\ UNCHANGED <<transform, registration, computer, upsampler, optimizer, config,
                   fixedImage, reader, installed>>

DoReadFromFile ==
    /\ pc = "written"
    /\ LET r == ReadFromFile(reader, file)
       IN /\ reader' = r.tr
          /\ call' = [NoCall EXCEPT !.op = "ReadFromFile", !.thrown = r.thrown]
          /\ pc' = IF r.thrown THEN "error" ELSE "read"
    /\ UNCHANGED <<transform, registration, computer, upsampler, optimizer, config,
                   fixedImage, file, installed>>

\* 1.0, 0.0, -12.5, 1.234567891 (10 digits), 0.3333333333333333,
\* 0.7071067811865476 and 0.99999999999 (more than 10 digits)
RealOne == Real(FALSE, <<1>>, 1)
RealZero == Real(FALSE, <<>>, 0)
RealNegative == Real(TRUE, <<1, 2, 5>>, 2)
RealTenDigits == Real(FALSE, <<1, 2, 3, 4, 5, 6, 7, 8, 9, 1>>, 1)
RealThird == Real(FALSE, <<3, 3, 3, 3, 3, 3, 3, 3, 3, 3, 3, 3, 3, 3, 3, 3>>, 0)
RealSqrtHalf == Real(FALSE, <<7, 0, 7, 1, 0, 6, 7, 8, 1, 1, 8, 6, 5, 4, 7, 6>>, 0)
RealNines == Real(FALSE, <<9, 9, 9, 9, 9, 9, 9, 9, 9, 9, 9>>, 0)

Negate(v) == IF v.digits = <<>> THEN v ELSE [v EXCEPT !.neg = ~@]

\* direction matrices: the identity, one with a single family of off-diagonal
\* entries, and a rotation-like one with long entries
DirectionSamples ==
    {[j \in Dims |-> [i \in Dims |-> IF i = j THEN RealOne ELSE RealZero]],
     [j \in Dims |-> [i \in Dims |->
         IF i = j THEN RealOne ELSE IF j < i THEN RealNegative ELSE RealZero]],
     [j \in Dims |-> [i \in Dims |->
         IF i = j THEN RealSqrtHalf ELSE IF j < i THEN Negate(RealSqrtHalf)
         ELSE RealTenDigits]]}

SpacingSamples ==
    {[d \in Dims |-> RealOne], [d \in Dims |-> RealTenDigits],
     [d \in Dims |-> IF d = 0 THEN RealThird ELSE RealOne],
     [d \in Dims |-> IF d = 0 THEN RealOne ELSE RealNines]}

OriginSamples ==
    {[d \in Dims |-> RealZero], [d \in Dims |-> RealNegative],
     [d \in Dims |-> IF d = 0 THEN Negate(RealThird) ELSE RealTenDigits]}

FileGridSamples ==
    {Geometry(Region(size, index), spacing, origin, direction) :
        size \in {[d \in Dims |-> 2 + d], PlaceholderRegion.size},
        index \in {Zeros, [d \in Dims |-> d - 1]},
        spacing \in SpacingSamples,
        origin \in OriginSamples,
        direction \in DirectionSamples}

InitFile ==
    /\ InitObjects(1)
    /\ \E g \in FileGridSamples :
         transform = InstallGrid([NewTransform EXCEPT !.spacing = g.spacing], g)
    /\ reader \in {NewTransform, [NewTransform EXCEPT !.region = PlaceholderRegion]}
    /\ config = Configuration(NoVector, NoVector, NoVector, NoVector, FALSE)
    /\ fixedImage \in RunImages
    /\ pc = "installed"

NextFile ==
    \/ DoWriteToFile
    \/ DoReadFromFile

SpecFile == InitFile /\ [][NextFile]_vars

SignificantDigits(v) == Len(v.digits)

\* C6, as claimed: WriteToFile followed by ReadFromFile installs a geometry
\* identical to the one written, for every geometry.
C6_RoundTripIsIdentity ==
    pc = "read" => GridOf(reader) = GridOf(transform)

\* C6, amended: WriteToFile followed by ReadFromFile installs the written
\* GridSize and GridIndex, and every GridSpacing, GridOrigin and GridDirection
\* value rounded to 10 significant digits, so values of at most 10 significant
\* digits are reproduced exactly; direction element (j,i) is written at flat
\* position i*D+j and read back from it, so the matrix is not transposed.
C6_RoundTripToTenDigits ==
    /\ file.written =>
         \A i \in Dims : \A j \in Dims :
            LET entry == file.GridDirection[i * SpaceDimension + j]
                v == transform.direction[j][i]
            IN /\ SignificantDigits(entry) <= 10
               /\ SignificantDigits(v) <= 10 => entry = v
    /\ pc = "read" =>
         /\ reader.region = transform.region
         /\ \A d \in Dims :
              /\ reader.spacing[d] = WriteReal(transform.spacing[d], 10)
              /\ reader.origin[d] = WriteReal(transform.origin[d], 10)
              /\ SignificantDigits(transform.spacing[d]) <= 10 =>
                    reader.spacing[d] = transform.spacing[d]
              /\ SignificantDigits(transform.origin[d]) <= 10 =>
                    reader.origin[d] = transform.origin[d]
         /\ \A j \in Dims : \A i \in Dims :
              /\ reader.direction[j][i] = WriteReal(transform.direction[j][i], 10)
              /\ SignificantDigits(transform.direction[j][i]) <= 10 =>
                    reader.direction[j][i] = transform.direction[j][i]

\* a non-symmetric direction matrix read back as written, beside a spacing of
\* more than 10 digits that was not
C6_Witness ==
    /\ pc = "read"
    /\ transform.direction[0][1] # transform.direction[1][0]
    /\ reader.direction = transform.direction
    /\ reader.spacing[0] # transform.spacing[0]
    /\ reader.region = transform.region

(***************************************************************************)
(* ReadFromFile on its own: a transform holding the grid of an earlier     *)
(* step reads a transform-parameter file, written by WriteToFile or by     *)
(* hand, whose parameter vector may or may not fit the grid it names.      *)
(***************************************************************************)
\* the grids of the files: two proper ones, at two grid indices
ReadGridSamples ==
    {Geometry(Region([d \in Dims |-> n + d], index), [d \in Dims |-> RealOne],
              [d \in Dims |-> RealNegative],
              [j \in Dims |-> [i \in Dims |-> IF i = j THEN RealOne ELSE RealZero]]) :
        n \in {2, 3}, index \in {Zeros, [d \in Dims |-> d - 1]}}

\* the transform before the call: as constructed, or holding the placeholder grid
\* of BeforeRegistration and its dummy parameters
ReaderSamples ==
    {NewTransform,
     [NewTransform EXCEPT !.region = PlaceholderRegion,
                          !.parameters = Fill(GetNumberOfParameters(PlaceholderRegion), 0)]}

\* the lengths of the parameter vectors of the files: none, one per axis (the
\* default grid), and the parameter counts of the grids above
ParameterCountSamples ==
    {0, SpaceDimension}
        \cup {GetNumberOfParameters(g.region) : g \in ReadGridSamples}
        \cup {GetNumberOfParameters(tr.region) : tr \in ReaderSamples}

\* the files: written from a grid, or without any grid entry
ReadFileSamples ==
    {WriteToFile(InstallGrid(NewTransform, g), Ramp(n, 1)) :
        g \in ReadGridSamples, n \in ParameterCountSamples}
        \cup {[NoFile EXCEPT !.written = TRUE, !.TransformParameters = Ramp(n, 1)] :
                 n \in ParameterCountSamples}

InitRead ==
    /\ registration = NewRegistration(1)
    /\ computer = NewComputer
    /\ upsampler = NewUpsampler
    /\ optimizer = NewOptimizer
    /\ installed = {}
    /\ call = NoCall
    /\ transform = NewTransform
    /\ config = Configuration(NoVector, NoVector, NoVector, NoVector, FALSE)
    /\ fixedImage \in RunImages
    /\ file \in ReadFileSamples
    /\ reader \in ReaderSamples
    /\ pc = "written"

SpecRead == InitRead /\ [][DoReadFromFile]_vars

\* GridSize and GridIndex as the file gives them, 1 and 0 where it has no entry
FileGridSize == [i \in Dims |-> IF i \in DOMAIN file.GridSize THEN file.GridSize[i] ELSE 1]

FileGridIndex ==
    [i \in Dims |-> IF i \in DOMAIN file.GridIndex THEN file.GridIndex[i] ELSE 0]

\* (prod GridSize) x D
FileParameterCount == ProdUpTo(FileGridSize, SpaceDimension) * SpaceDimension

FileRead == call.op = "ReadFromFile"

\* C11: ReadFromFile installs the grid read from the file before the generic
\* parameter vector is set, in every execution: after the call the transform
\* holds the file's grid region, the vector was accepted exactly when its length
\* is (prod GridSize) x D of the file, whatever grid the transform held before,
\* and an accepted vector is the transform's parameter vector.
C11_GridInstalledBeforeParameters ==
    FileRead =>
        /\ reader.region = Region(FileGridSize, FileGridIndex)
        /\ call.thrown <=> VecLen(file.TransformParameters) # FileParameterCount
        /\ ~call.thrown =>
              /\ reader.parameters = file.TransformParameters
              /\ VecLen(reader.parameters) = GetNumberOfParameters(reader.region)

\* a vector fitting the file's grid, and no grid held before, was accepted
C11_Witness ==
    /\ FileRead /\ pc = "read"
    /\ reader.region.size \notin {tr.region.size : tr \in ReaderSamples}
    /\ \A tr \in ReaderSamples :
          VecLen(reader.parameters) # GetNumberOfParameters(tr.region)

\* a vector fitting the placeholder grid, and not the file's grid, was rejected
C11_WitnessRejected ==
    /\ FileRead /\ pc = "error"
    /\ reader.region.size # PlaceholderRegion.size
    /\ VecLen(file.TransformParameters) = GetNumberOfParameters(PlaceholderRegion)

(***************************************************************************)
(* The levels of a registration run.                                       *)
(***************************************************************************)
LevelCalled == call.op = "BeforeEachResolution"

\* right after BeforeEachResolution, before the level is optimized
JustCalled == LevelCalled /\ pc \in {"optimizing", "error"}

\* C7: BeforeEachResolution at level 0 installs the precomputed geometry of
\* level 0 in the transform and gives the registration, as initial parameters of
\* the next level, a vector of zeros with one entry per parameter of that
\* geometry; the upsampler is not invoked.
C7_Level0InstallsZeroParameters ==
    (LevelCalled /\ call.level = 0) =>
        LET g == computer.grids[0]
        IN /\ GridOf(transform) = g
           /\ DOMAIN registration.initialTransformParametersOfNextLevel =
                 0 .. (GetNumberOfPixels(g.region) * SpaceDimension - 1)
           /\ \A k \in DOMAIN registration.initialTransformParametersOfNextLevel :
                 registration.initialTransformParametersOfNextLevel[k] = 0
           /\ upsampler = NewUpsampler

\* level 0 installed over the placeholder grid, the level about to be optimized
C7_Witness ==
    /\ LevelCalled /\ call.level = 0 /\ pc = "optimizing"
    /\ transform.region # PlaceholderRegion
    /\ VecLen(registration.initialTransformParametersOfNextLevel) >
          VecLen(registration.initialTransformParameters)

\* C8: BeforeEachResolution at a level k >= 1 invokes the upsampler with the
\* geometry the transform holds (that of level k-1) as coarse grid, the
\* precomputed geometry of level k as fine grid and the registration's last
\* transform parameters as input; afterwards the transform holds the geometry of
\* level k, and its parameters and the registration's initial parameters of the
\* next level are the upsampler's output.
C8_LevelKUpsamples ==
    /\ []((JustCalled /\ call.level >= 1) =>
            LET k == call.level
            IN /\ upsampler.calls = k
               /\ upsampler.currentGrid = computer.grids[k - 1]
               /\ upsampler.requiredGrid = computer.grids[k]
               /\ upsampler.input = registration.lastTransformParameters
               /\ GridOf(transform) = computer.grids[k]
               /\ transform.parameters = upsampler.output
               /\ registration.initialTransformParametersOfNextLevel = upsampler.output
               /\ VecLen(upsampler.output) =
                     GetNumberOfPixels(computer.grids[k].region) * SpaceDimension)
    /\ [][(pc = "beforeLevel" /\ registration.currentLevel >= 1) =>
             /\ upsampler'.currentGrid = GridOf(transform)
             /\ upsampler'.input = registration.lastTransformParameters
             /\ upsampler'.calls = upsampler.calls + 1]_vars

\* level 2 upsampled from a smaller level-1 grid and non-zero parameters
C8_Witness ==
    /\ JustCalled /\ call.level = 2
    /\ upsampler.currentGrid.region # upsampler.requiredGrid.region
    /\ \E k \in DOMAIN upsampler.input : upsampler.input[k] # 0
    /\ transform.parameters = upsampler.output

\* C9: the schedule, the final spacing and the geometries of the schedule
\* computer are set once, by BeforeRegistration before level 0, and no later
\* operation changes them.
C9_ScheduleIsWrittenOnce ==
    /\ [][pc # "constructed" => computer' = computer]_vars
    /\ [](pc = "constructed" => computer = NewComputer)
    /\ [](LevelCalled =>
            /\ computer.setScheduleCalls = 1
            /\ computer.computeCalls = 1
            /\ computer.finalGridSpacingSet)

\* a run of three levels that has finished
C9_Witness ==
    /\ pc = "finished"
    /\ installed = 0 .. 2
    /\ upsampler.calls = 2
    /\ computer.computeCalls = 1

(***************************************************************************)
(* A registration that does not call BeforeEachResolution for level 0.     *)
(***************************************************************************)
\* the registration optimizes level 0 from the initial parameters it was given
\* by BeforeRegistration, BeforeEachResolution not having been called
OptimizeWithoutBeforeEachResolution ==
    /\ pc = "beforeLevel"
    /\ registration.currentLevel = 0
    /\ registration.numberOfLevels > 1
    /\ \E result \in OptimizerResults(VecLen(registration.initialTransformParameters)) :
         registration' = [registration EXCEPT !.lastTransformParameters = result,
                                              !.currentLevel = 1]
    /\ UNCHANGED <<transform, computer, upsampler, optimizer, config, fixedImage,
                   file, reader, installed, call, pc>>

NextMisuse ==
    \/ Next
    \/ OptimizeWithoutBeforeEachResolution

SpecMisuse == Init /\ [][NextMisuse]_vars

\* C10: BeforeEachResolution at a level k >= 1 while the transform holds only
\* the placeholder grid (level 0 never installed) ends in a fatal error and
\* produces no upsampled parameters.
C10_UpsamplingFromPlaceholderIsFatal ==
    (LevelCalled /\ call.level >= 1 /\ 0 \notin installed) =>
        /\ call.thrown
        /\ upsampler.calls = 0
        /\ registration.initialTransformParametersOfNextLevel = NoVector

(***************************************************************************)
(* The optimizer scales of every level.                                    *)
(***************************************************************************)
\* the scales SetOptimizerScales builds for a region and an edge width that fits:
\* the sentinel for the control points of the edge band, in every dimension
\* block, and 1.0 elsewhere
ScalesOf(region, w) ==
    [s \in 0 .. (GetNumberOfPixels(region) * SpaceDimension - 1) |->
        IF InEdgeBand(region, w, ComputeIndex(region, s % GetNumberOfPixels(region)))
        THEN infScale ELSE One]

\* C12: in every BeforeEachResolution call, at level 0 and at every level
\* k >= 1, the transform holds the geometry of that level when the call ends, the
\* edge width used is the PassiveEdgeWidth entry of the level (0 when the key is
\* absent), and a completed call leaves in the optimizer the scales of that
\* geometry and that width, one entry per parameter of the level's geometry.
C12_ScalesFollowInstalledGeometry ==
    LevelCalled =>
        LET k == call.level
            g == computer.grids[k]
            w == call.edgeWidth
        IN /\ GridOf(transform) = g
           /\ k \in DOMAIN config.PassiveEdgeWidth => w = config.PassiveEdgeWidth[k]
           /\ config.PassiveEdgeWidth = NoVector => w = 0
           /\ call.thrown <=> (w > 0 /\ ~FitsEdgeWidth(g.region, w))
           /\ ~call.thrown =>
                 /\ VecLen(optimizer.scales) = GetNumberOfParameters(g.region)
                 /\ optimizer.scales = ScalesOf(g.region, w)
                 /\ optimizer.setScalesCalls = k + 1

\* a level k >= 1 whose grid differs from the previous level's, with a positive
\* edge width of its own, the scales built for the new grid
C12_Witness ==
    /\ JustCalled /\ call.level >= 1 /\ ~call.thrown
    /\ call.edgeWidth > 0
    /\ call.edgeWidth # ReadEntry(0, config.PassiveEdgeWidth, 0)
    /\ GetNumberOfParameters(computer.grids[call.level - 1].region) #
          GetNumberOfParameters(transform.region)
    /\ \E s \in DOMAIN optimizer.scales : optimizer.scales[s] = One
    /\ \E s \in DOMAIN optimizer.scales : optimizer.scales[s] = infScale

\* level 0: the scales built for the grid of level 0, not for the placeholder grid
C12_WitnessLevel0 ==
    /\ JustCalled /\ call.level = 0 /\ ~call.thrown
    /\ call.edgeWidth > 0
    /\ VecLen(optimizer.scales) # GetNumberOfParameters(PlaceholderRegion)

====
